---- MODULE Spec2Model ----
(***************************************************************************)
(* pgcenter: the statistics refresh engine of src/pgcenter.c.              *)
(*                                                                         *)
(* The module models main()'s loop (key dispatch and refresh tick), the    *)
(* per-console screen state set up by init_screens, change_sort_order,     *)
(* switch_conn, and the table functions diff_arrays and sort_array.        *)
(*                                                                         *)
(* pgcenter.h is not part of src/: the constants it defines (the           *)
(* *_ORDER_MIN / *_ORDER_MAX column indexes, MAX_CONSOLE, ...) are given   *)
(* representative values here.  The only relations the code relies on are  *)
(* ORDER_MIN <= ORDER_MAX and INVALID_ORDER_KEY = -1 for long activity.    *)
(***************************************************************************)
EXTENDS Integers, Sequences, FiniteSets, TLC

(***************************************************************************)
(* Bounds of the model.                                                    *)
(***************************************************************************)
\* consoles configured at startup: 0 .. n-1 for some n in 1..MaxConfigured
MaxConfigured == 2
\* a query returns 0..MaxRows rows
MaxRows == 2
\* keys pressed in one run of the main loop (Spec); ticks are not bounded
MaxKeys == 3

(***************************************************************************)
(* Constants of pgcenter.h.                                                *)
(***************************************************************************)
MAX_CONSOLE == 8
INVALID_ORDER_KEY == -1
PG_STAT_DATABASE_ORDER_MIN == 1
PG_STAT_DATABASE_ORDER_MAX == 5
PG_STAT_REPLICATION_ORDER_MIN == 2
PG_STAT_REPLICATION_ORDER_MAX == 3
PG_STAT_USER_TABLES_ORDER_MIN == 1
PG_STAT_USER_TABLES_ORDER_MAX == 2
PG_STAT_USER_INDEXES_ORDER_MIN == 2
PG_STAT_USER_INDEXES_ORDER_MAX == 3
PG_STATIO_USER_TABLES_ORDER_MIN == 1
PG_STATIO_USER_TABLES_ORDER_MAX == 2
PG_TABLES_SIZE_ORDER_MIN == 4
PG_TABLES_SIZE_ORDER_MAX == 6
PG_STAT_ACTIVITY_LONG_ORDER_MIN == -1
PG_STAT_ACTIVITY_LONG_ORDER_MAX == -1
PG_STAT_USER_FUNCTIONS_ORDER_MIN == 2
PG_STAT_USER_FUNCTIONS_ORDER_MAX == 3
PG_STAT_USER_FUNCTIONS_DIFF_COL == 2
DEFAULT_QUERY_CONTEXT == "pg_stat_database"
\* the text "00:00:00" (a C string is the sequence of its characters)
PG_STAT_ACTIVITY_MIN_AGE_DEFAULT == << "0", "0", ":", "0", "0", ":", "0", "0" >>

\* enum context
Contexts ==
  { "pg_stat_database", "pg_stat_replication", "pg_stat_user_tables",
    "pg_stat_user_indexes", "pg_statio_user_tables", "pg_tables_size",
    "pg_stat_activity_long", "pg_stat_user_functions" }

Consoles == 0 .. (MAX_CONSOLE - 1)

\* the *_ORDER_MIN constant of a context
ORDER_MIN(c) ==
  CASE c = "pg_stat_database"       -> PG_STAT_DATABASE_ORDER_MIN
    [] c = "pg_stat_replication"    -> PG_STAT_REPLICATION_ORDER_MIN
    [] c = "pg_stat_user_tables"    -> PG_STAT_USER_TABLES_ORDER_MIN
    [] c = "pg_stat_user_indexes"   -> PG_STAT_USER_INDEXES_ORDER_MIN
    [] c = "pg_statio_user_tables"  -> PG_STATIO_USER_TABLES_ORDER_MIN
    [] c = "pg_tables_size"         -> PG_TABLES_SIZE_ORDER_MIN
    [] c = "pg_stat_activity_long"  -> PG_STAT_ACTIVITY_LONG_ORDER_MIN
    [] c = "pg_stat_user_functions" -> PG_STAT_USER_FUNCTIONS_ORDER_MIN

\* the *_ORDER_MAX constant of a context
ORDER_MAX(c) ==
  CASE c = "pg_stat_database"       -> PG_STAT_DATABASE_ORDER_MAX
    [] c = "pg_stat_replication"    -> PG_STAT_REPLICATION_ORDER_MAX
    [] c = "pg_stat_user_tables"    -> PG_STAT_USER_TABLES_ORDER_MAX
    [] c = "pg_stat_user_indexes"   -> PG_STAT_USER_INDEXES_ORDER_MAX
    [] c = "pg_statio_user_tables"  -> PG_STATIO_USER_TABLES_ORDER_MAX
    [] c = "pg_tables_size"         -> PG_TABLES_SIZE_ORDER_MAX
    [] c = "pg_stat_activity_long"  -> PG_STAT_ACTIVITY_LONG_ORDER_MAX
    [] c = "pg_stat_user_functions" -> PG_STAT_USER_FUNCTIONS_ORDER_MAX

(***************************************************************************)
(* State.                                                                  *)
(***************************************************************************)
VARIABLES
  screens,        \* struct screen_s *screens[MAX_CONSOLE]
  console_index,  \* main: static int console_index
  console_no,     \* main: static int console_no
  first_iter,     \* main: bool *first_iter (one flag for the whole process)
  p_res,          \* main: PGresult *p_res (one baseline for the whole process)
  c_res,          \* main: PGresult *c_res
  n_prev_rows,    \* main: int n_prev_rows (not initialised by main)
  pc,             \* "run", or "crashed" after a read through a null pointer
  last,           \* what the latest loop iteration did (observation)
  nkeys,          \* keys handled so far (bounded in Spec)
  run,            \* the current run of equal arrow keys (observation)
  tab,            \* the arrays of one diff_arrays / sort_array call (SpecTable)
  host,           \* print_cpu_usage's statics, st_cpu[2] and the summary printed
  given           \* the input the latest step consumed (observation)

vars ==
  << screens, console_index, console_no, first_iter, p_res, c_res,
     n_prev_rows, pc, last, nkeys, run, tab, host, given >>

(***************************************************************************)
(* Query results.  A PGresult is identified by the connection and the      *)
(* query (context) that produced it, and by its number of rows.            *)
(***************************************************************************)
NullRes == [kind |-> "null", con |-> -1, ctx |-> "", rows |-> 0]
UninitRes == [kind |-> "uninit", con |-> -1, ctx |-> "", rows |-> 0]
Res(con, ctx, rows) == [kind |-> "res", con |-> con, ctx |-> ctx, rows |-> rows]

\* libpq: PQntuples(NULL) is 0
PQntuples(res) == IF res.kind = "res" THEN res.rows ELSE 0

\* do_query: the result, or NULL when the status is not PGRES_TUPLES_OK
do_query(con, ctx, ok, rows) == IF ok THEN Res(con, ctx, rows) ELSE NullRes

(***************************************************************************)
(* init_screens and the startup connections.                               *)
(***************************************************************************)
init_screens ==
  [ i \in Consoles |->
      [ screen |-> i,
        conn_used |-> FALSE,
        host |-> "", port |-> "", user |-> "", dbname |-> "", password |-> "",
        current_context |-> DEFAULT_QUERY_CONTEXT,
        pg_stat_activity_min_age |-> PG_STAT_ACTIVITY_MIN_AGE_DEFAULT,
        context_list |->
          [ c \in Contexts |-> [order_key |-> ORDER_MIN(c), order_desc |-> TRUE] ] ] ]

\* pgcenter.h, and getpwuid(getuid())->pw_name
DEFAULT_HOST == "/tmp"
DEFAULT_PORT == "5432"
pw_name == "me"

\* the values given with -h, -p, -U and -d, and the password typed after -W
optarg == [h |-> "10.0.0.1", p |-> "6432", U |-> "bob", d |-> "shop", W |-> "typed"]

\* create_initial_conn 234-246: the positional arguments from the k-th on;
\* Len(pos) - k + 1 is argc - optind
RECURSIVE take_positional(_, _, _)
take_positional(scr, pos, k) ==
  IF k > Len(pos) THEN scr
  ELSE IF Len(pos) - k + 1 > 1 /\ scr.user = "" /\ scr.dbname = ""
    THEN take_positional([scr EXCEPT !.user = pos[k]], pos, k + 1)
  ELSE IF scr.dbname = ""
    THEN take_positional([scr EXCEPT !.dbname = pos[k]], pos, k + 1)
  ELSE take_positional(scr, pos, k + 1)

\* create_initial_conn leaving conn_used as it is
create_initial_conn_unused(scrs, args) == scrs

\* create_initial_conn 207-262 on console 0: options, positional arguments,
\* defaults; -W prompts for the password
create_initial_conn(scrs, args) ==
  LET o == [ scrs[0] EXCEPT
               !.host = IF "h" \in args.opts THEN optarg.h ELSE @,
               !.port = IF "p" \in args.opts THEN optarg.p ELSE @,
               !.user = IF "U" \in args.opts THEN optarg.U ELSE @,
               !.dbname = IF "d" \in args.opts THEN optarg.d ELSE @ ]
      a == take_positional(o, args.pos, 1)
      u == IF a.user = "" THEN pw_name ELSE a.user
  IN  [ scrs EXCEPT ![0] =
          [ a EXCEPT !.host = IF @ = "" THEN DEFAULT_HOST ELSE @,
                     !.port = IF @ = "" THEN DEFAULT_PORT ELSE @,
                     !.user = u,
                     !.password = IF "W" \in args.opts THEN optarg.W ELSE @,
                     !.dbname = IF u # "" /\ @ = "" THEN u ELSE @,
                     !.conn_used = TRUE ] ]

\* the fields of the k-th line (from 0) of a connection file of one of three
\* shapes: five fields, three fields, or an empty second field
RcHosts == << "h0", "h1", "h2", "h3", "h4", "h5", "h6", "h7", "h8", "h9" >>
RcLine(k, shape) ==
  LET hostname == RcHosts[(k % Len(RcHosts)) + 1]
  IN  CASE shape = "full" -> << hostname, "5433", "app", "joe", "secret" >>
        [] shape = "short" -> << hostname, "5433", "app" >>
        [] shape = "gap" -> << hostname, "", "app", "joe", "secret" >>

\* sscanf(strbuf, "%[^:]:%[^:]:%[^:]:%[^:]:%[^:\n]", host, port, dbname, user,
\* password): the fields are assigned in order up to the first empty one
sscanf_rc(scr, fields) ==
  LET targets == << "host", "port", "dbname", "user", "password" >>
      matched == { j \in 1 .. Len(fields) : j <= Len(targets) /\ \A i \in 1 .. j : fields[i] # "" }
  IN  [ f \in DOMAIN scr |->
          IF \E j \in matched : targets[j] = f
            THEN fields[CHOOSE j \in matched : targets[j] = f]
            ELSE scr[f] ]

\* create_pgcenterrc_conn 307-315: lines k.. of the file go to consoles i..;
\* oob: a line was written through screens[i] with i >= MAX_CONSOLE
RECURSIVE rc_lines(_, _, _, _)
rc_lines(scrs, i, k, rc) ==
  IF k >= rc.n THEN [screens |-> scrs, ret |-> "PGCENTERRC_READ_OK", next |-> i, oob |-> FALSE]
  ELSE IF i >= MAX_CONSOLE
    THEN [screens |-> scrs, ret |-> "PGCENTERRC_READ_OK", next |-> i, oob |-> TRUE]
  ELSE rc_lines([scrs EXCEPT ![i] = [sscanf_rc(scrs[i], RcLine(k, rc.shape)) EXCEPT
                                       !.screen = i, !.conn_used = TRUE]],
                i + 1, k + 1, rc)

\* create_pgcenterrc_conn without the test of the permission bits
create_pgcenterrc_conn_any_mode(scrs, pos, rc) ==
  IF rc.exists /\ rc.openable THEN rc_lines(scrs, pos, 0, rc)
  ELSE [screens |-> scrs, ret |-> "PGCENTERRC_READ_ERR", next |-> pos, oob |-> FALSE]

\* create_pgcenterrc_conn: rc.mode holds the group and other permission digits
create_pgcenterrc_conn(scrs, pos, rc) ==
  IF ~rc.exists \/ rc.mode.g # 0 \/ rc.mode.o # 0 \/ ~rc.openable
    THEN [screens |-> scrs, ret |-> "PGCENTERRC_READ_ERR", next |-> pos, oob |-> FALSE]
    ELSE rc_lines(scrs, pos, 0, rc)

\* a connection file of mode 0600 with n lines of five fields
RcOf(n) == [exists |-> TRUE, mode |-> [g |-> 0, o |-> 0], openable |-> TRUE,
            n |-> n, shape |-> "full"]

\* main 1352-1355 started as  pgcenter -h 10.0.0.1 -p 6432 -U bob -d shop  with
\* a connection file of n-1 lines: consoles 0..n-1 get conn_used
startup_screens(n) ==
  create_pgcenterrc_conn(
    create_initial_conn(init_screens, [quit |-> FALSE, opts |-> {"h", "p", "U", "d"}, pos |-> << >>]),
    1, RcOf(n - 1)).screens

(***************************************************************************)
(* Observation record of the latest loop iteration.                        *)
(***************************************************************************)
NoRun == [ctx |-> "", inc |-> FALSE, start |-> 0, n |-> 0, seen |-> {}]
NoTab == [step |-> "none"]
NoHost == [step |-> "none"]
NoGiven == [kind |-> "none"]

\* a key was handled: the message switch_conn printed, if any
KeyObs(msg, msgno) ==
  [ op |-> "key", msg |-> msg, msgno |-> msgno,
    path |-> "none", diffed |-> FALSE, sorted |-> FALSE, rendered |-> FALSE,
    src |-> "none", short |-> FALSE, sampled |-> FALSE, queried |-> FALSE ]

InitObs == [KeyObs("", 0) EXCEPT !.op = "init"]

(***************************************************************************)
(* Key handlers.                                                           *)
(***************************************************************************)
DigitChars == << "0", "1", "2", "3", "4", "5", "6", "7", "8", "9" >>
IsDigit(ch) == \E d \in 1 .. 10 : DigitChars[d] = ch
DigitVal(ch) == (CHOOSE d \in 1 .. 10 : DigitChars[d] = ch) - 1
IsSpace(ch) == ch = " "

RECURSIVE skip_space(_, _)
skip_space(s, i) ==
  IF i <= Len(s) /\ IsSpace(s[i]) THEN skip_space(s, i + 1) ELSE i

RECURSIVE digits_value(_, _, _)
digits_value(s, i, acc) ==
  IF i <= Len(s) /\ IsDigit(s[i])
    THEN digits_value(s, i + 1, acc * 10 + DigitVal(s[i]))
    ELSE acc


\* sscanf %u at position i of s: blanks, an optional sign, digits.  eof: the
\* text ended before the number; ok: there were digits; wrapped: a negative
\* number, converted to a large unsigned one; next: the position after it
RECURSIVE digits_end(_, _)
digits_end(s, i) == IF i <= Len(s) /\ IsDigit(s[i]) THEN digits_end(s, i + 1) ELSE i

scan_uint(s, i) ==
  LET a == skip_space(s, i)
      signed == a <= Len(s) /\ s[a] \in {"-", "+"}
      b == IF signed THEN a + 1 ELSE a
      e == digits_end(s, b)
      v == digits_value(s, b, 0)
  IN  [ eof |-> a > Len(s), ok |-> e > b, val |-> v,
        wrapped |-> (signed /\ s[a] = "-" /\ v > 0), next |-> e ]

ColonAt(s, i) == i <= Len(s) /\ s[i] = ":"

\* sscanf(min_age, "%u:%u:%u", &hour, &min, &sec): the return value and the
\* fields it assigned
sscanf_hms(s) ==
  LET h == scan_uint(s, 1)
      m == scan_uint(s, h.next + 1)
      x == scan_uint(s, m.next + 1)
      n == IF h.eof THEN 0 - 1
           ELSE IF ~h.ok THEN 0
           ELSE IF ~ColonAt(s, h.next) \/ ~m.ok THEN 1
           ELSE IF ~ColonAt(s, m.next) \/ ~x.ok THEN 2
           ELSE 3
  IN  [n |-> n, hour |-> h, min |-> m, sec |-> x]

\* an unsigned field compared with its limit; a field sscanf did not assign
\* holds whatever the stack held (junk: it happens to exceed the limit)
field_exceeds(assigned, f, limit, junk) ==
  IF assigned THEN f.wrapped \/ f.val > limit ELSE junk

\* change_min_age 1310-1319, given what cmd_readline returned: the screen
\* after the call and the message printed
change_min_age(scr, str, with_esc, junk) ==
  LET r == sscanf_hms(str)
      bad == \/ field_exceeds(r.n >= 1, r.hour, 23, junk.hour)
             \/ field_exceeds(r.n >= 2, r.min, 59, junk.min)
             \/ field_exceeds(r.n >= 3, r.sec, 59, junk.sec)
  IN  IF Len(str) # 0 /\ ~with_esc
        THEN IF r.n = 0 \/ bad
               THEN [screen |-> scr, msg |-> "Nothing to do. Failed read or invalid value."]
               ELSE [screen |-> [scr EXCEPT !.pg_stat_activity_min_age = str], msg |-> ""]
      ELSE IF Len(str) = 0 /\ ~with_esc
        THEN [screen |-> scr, msg |-> "Nothing to do. Leave min age %s"]
      ELSE [screen |-> scr, msg |-> "Do nothing. Operation canceled. "]

\* what cmd_readline hands back in the main loop: ESC (the text is emptied),
\* or Enter after one of these texts
TypedTexts == { << >>, << "0", "0", ":", "0", "5", ":", "0", "0" >>, << "2", "4", ":", "0", "0", ":", "0", "0" >> }
ReadlineResults ==
  {[str |-> << >>, with_esc |-> TRUE]} \cup {[str |-> t, with_esc |-> FALSE] : t \in TypedTexts}
JunkChoices == [hour : BOOLEAN, min : BOOLEAN, sec : BOOLEAN]

\* switch_conn without the conn_used test
switch_conn_always(scr, ch, ci, cn) ==
  [ console_index |-> ch - 1,
    msg |-> "Switch to another pgbouncer connection (console %i)",
    msgno |-> ch ]

\* switch_conn: ch is the digit pressed (1..8); returns the console index
\* and the status message with the console number it prints
switch_conn(scr, ch, ci, cn) ==
  IF scr[ch - 1].conn_used
    THEN [ console_index |-> ch - 1,
           msg |-> "Switch to another pgbouncer connection (console %i)",
           msgno |-> ch ]
    ELSE [ console_index |-> ci,
           msg |-> "Do not switch because no connection associated (stay on console %i)",
           msgno |-> cn ]

\* the range change_sort_order wraps in, per context
sort_bounds(c) ==
  CASE c = "pg_tables_size" ->
         [min |-> PG_TABLES_SIZE_ORDER_MIN - 3, max |-> PG_TABLES_SIZE_ORDER_MAX]
    [] c = "pg_stat_activity_long" ->
         [min |-> PG_STAT_ACTIVITY_LONG_ORDER_MIN, max |-> PG_STAT_ACTIVITY_LONG_ORDER_MIN]
    [] OTHER -> [min |-> ORDER_MIN(c), max |-> ORDER_MAX(c)]

\* change_sort_order stopping at the ends of the range instead of wrapping
next_order_key_stick(k, b, increment) ==
  IF increment
    THEN (IF k + 1 > b.max THEN b.max ELSE k + 1)
    ELSE (IF k - 1 < b.min THEN b.min ELSE k - 1)

\* change_sort_order without the range tests
next_order_key_nowrap(k, b, increment) == IF increment THEN k + 1 ELSE k - 1

\* the new order_key of change_sort_order
next_order_key(k, b, increment) ==
  IF increment
    THEN (IF k + 1 > b.max THEN b.min ELSE k + 1)
    ELSE (IF k - 1 < b.min THEN b.max ELSE k - 1)

\* change_sort_order leaving *first_iter as it is on every view
change_sort_order_keep(scr, increment, fi) ==
  LET c == scr.current_context
      k == scr.context_list[c].order_key
  IN  [ screen |-> [scr EXCEPT !.context_list[c].order_key =
                                  next_order_key(k, sort_bounds(c), increment)],
        first_iter |-> fi ]

\* change_sort_order reversing the direction as well
change_sort_order_toggle(scr, increment, fi) ==
  LET c == scr.current_context
      k == scr.context_list[c].order_key
  IN  [ screen |-> [scr EXCEPT !.context_list[c].order_key =
                                  next_order_key(k, sort_bounds(c), increment),
                               !.context_list[c].order_desc = ~@],
        first_iter |-> (IF c = "pg_stat_user_functions" THEN TRUE ELSE fi) ]

\* change_sort_order: the screen and *first_iter after the call
change_sort_order(scr, increment, fi) ==
  LET c == scr.current_context
      b == sort_bounds(c)
      k == scr.context_list[c].order_key
  IN  [ screen |-> [scr EXCEPT !.context_list[c].order_key = next_order_key(k, b, increment)],
        first_iter |-> (IF c = "pg_stat_user_functions" THEN TRUE ELSE fi) ]

ViewKeys == {"d", "r", "t", "i", "y", "s", "l", "f"}

\* the view keys with 's' and 'y' exchanged
view_of_key_swapped(k) ==
  CASE k = "d" -> "pg_stat_database"
    [] k = "r" -> "pg_stat_replication"
    [] k = "t" -> "pg_stat_user_tables"
    [] k = "i" -> "pg_stat_user_indexes"
    [] k = "s" -> "pg_statio_user_tables"
    [] k = "y" -> "pg_tables_size"
    [] k = "l" -> "pg_stat_activity_long"
    [] k = "f" -> "pg_stat_user_functions"

\* main: the context a view key selects
view_of_key(k) ==
  CASE k = "d" -> "pg_stat_database"
    [] k = "r" -> "pg_stat_replication"
    [] k = "t" -> "pg_stat_user_tables"
    [] k = "i" -> "pg_stat_user_indexes"
    [] k = "y" -> "pg_statio_user_tables"
    [] k = "s" -> "pg_tables_size"
    [] k = "l" -> "pg_stat_activity_long"
    [] k = "f" -> "pg_stat_user_functions"

\* main: the status message of a view key
view_msg(k) ==
  CASE k = "d" -> "Show pg_stat_database"
    [] k = "r" -> "Show pg_stat_replication"
    [] k = "t" -> "Show pg_stat_user_tables"
    [] k = "i" -> "Show pg_stat_user_indexes"
    [] k = "y" -> "Show pg_statio_user_tables"
    [] k = "s" -> "Show relations sizes"
    [] k = "l" -> "Show long transactions (transactions and queries threshold: %s)"
    [] k = "f" -> "Show pg_stat_user_functions"

\* case '1'..'8' putting the console that is left back on the default view
KeyConsoleOf_reset(ch) ==
  /\ pc = "run"
  /\ LET r == switch_conn(screens, ch, console_index, console_no)
     IN  /\ console_index' = r.console_index
         /\ console_no' = r.console_index + 1
         /\ last' = KeyObs(r.msg, r.msgno)
  /\ screens' = [screens EXCEPT ![console_index].current_context = DEFAULT_QUERY_CONTEXT]
  /\ UNCHANGED << first_iter, p_res, c_res, n_prev_rows, pc >>

\* main, case '1'..'8': the digit ch was pressed
KeyConsoleOf(ch) ==
  /\ pc = "run"
  /\ LET r == switch_conn(screens, ch, console_index, console_no)
     IN  /\ console_index' = r.console_index
         /\ console_no' = r.console_index + 1
         /\ last' = KeyObs(r.msg, r.msgno)
  /\ UNCHANGED << screens, first_iter, p_res, c_res, n_prev_rows, pc >>

KeyConsole == \E ch \in 1 .. 8 : KeyConsoleOf(ch)

\* a view key that also moves the sort column of the view it selects to the
\* last one
KeyViewOf_reset(k) ==
  /\ pc = "run"
  /\ screens' = [screens EXCEPT
                   ![console_index].current_context = view_of_key(k),
                   ![console_index].context_list[view_of_key(k)].order_key =
                       ORDER_MAX(view_of_key(k))]
  /\ first_iter' = TRUE
  /\ last' = KeyObs("", 0)
  /\ UNCHANGED << console_index, console_no, p_res, c_res, n_prev_rows, pc >>

\* main, case 'd' 'r' 't' 'i' 'y' 's' 'l' 'f': the letter k was pressed
KeyViewOf(k) ==
  /\ pc = "run"
  /\ screens' = [screens EXCEPT ![console_index].current_context = view_of_key(k)]
  /\ first_iter' = TRUE
  /\ last' = KeyObs("", 0)
  /\ UNCHANGED << console_index, console_no, p_res, c_res, n_prev_rows, pc >>

KeyView == \E k \in ViewKeys : KeyViewOf(k)

\* main, case '\033' with 'C' (right, increment) or 'D' (left)
ArrowKey(increment) ==
  /\ pc = "run"
  /\ LET r == change_sort_order(screens[console_index], increment, first_iter)
     IN  /\ screens' = [screens EXCEPT ![console_index] = r.screen]
         /\ first_iter' = r.first_iter
  /\ last' = KeyObs("", 0)
  /\ UNCHANGED << console_index, console_no, p_res, c_res, n_prev_rows, pc >>

\* main, case '\033' with 'A' or 'B': reserved, nothing changes
KeyUpDown ==
  /\ pc = "run"
  /\ last' = KeyObs("", 0)
  /\ UNCHANGED << screens, console_index, console_no, first_iter, p_res, c_res,
                  n_prev_rows, pc >>

\* the default case running on into the sampling branch
KeyUnknown_sampling ==
  /\ pc = "run"
  /\ last' = [KeyObs("", 0) EXCEPT !.sampled = TRUE, !.queried = TRUE]
  /\ UNCHANGED << screens, console_index, console_no, first_iter, p_res, c_res,
                  n_prev_rows, pc >>

\* main, default
KeyUnknown ==
  /\ pc = "run"
  /\ last' = KeyObs("", 0)
  /\ UNCHANGED << screens, console_index, console_no, first_iter, p_res, c_res,
                  n_prev_rows, pc >>

\* case 'm' without the test of the view
KeyMinAgeOf_anywhere(inp, junk) ==
  /\ pc = "run"
  /\ LET r == change_min_age(screens[console_index], inp.str, inp.with_esc, junk)
     IN  /\ screens' = [screens EXCEPT ![console_index] = r.screen]
         /\ first_iter' = TRUE
         /\ last' = KeyObs(r.msg, 0)
  /\ UNCHANGED << console_index, console_no, p_res, c_res, n_prev_rows, pc >>

\* main, case 'm': edit min age on pg_stat_activity_long, refused elsewhere
KeyMinAgeOf(inp, junk) ==
  /\ pc = "run"
  /\ IF screens[console_index].current_context = "pg_stat_activity_long"
       THEN LET r == change_min_age(screens[console_index], inp.str, inp.with_esc, junk)
            IN  /\ screens' = [screens EXCEPT ![console_index] = r.screen]
                /\ first_iter' = TRUE
                /\ last' = KeyObs(r.msg, 0)
       ELSE /\ last' = KeyObs("Not allowed here.", 0)
            /\ UNCHANGED << screens, first_iter >>
  /\ UNCHANGED << console_index, console_no, p_res, c_res, n_prev_rows, pc >>

KeyMinAge == \E inp \in ReadlineResults, junk \in JunkChoices : KeyMinAgeOf(inp, junk)

\* main 1382-1384: a key is pending; one more key of the run's budget
KeyPressed == nkeys < MaxKeys /\ nkeys' = nkeys + 1 /\ UNCHANGED << run, tab, host, given >>

KeyRight == KeyPressed /\ ArrowKey(TRUE)
KeyLeft == KeyPressed /\ ArrowKey(FALSE)
KeyDigit == KeyPressed /\ KeyConsole
KeyLetter == KeyPressed /\ KeyView
KeyReserved == KeyPressed /\ KeyUpDown
KeyOther == KeyPressed /\ KeyUnknown
KeyM == KeyPressed /\ KeyMinAge

(***************************************************************************)
(* The refresh tick: main's else branch.                                   *)
(***************************************************************************)
\* number of columns of each view's query (PQnfields)
N_COLS(c) ==
  CASE c = "pg_stat_database"       -> 6
    [] c = "pg_stat_replication"    -> 4
    [] c = "pg_stat_user_tables"    -> 3
    [] c = "pg_stat_user_indexes"   -> 4
    [] c = "pg_statio_user_tables"  -> 3
    [] c = "pg_tables_size"         -> 7
    [] c = "pg_stat_activity_long"  -> 3
    [] c = "pg_stat_user_functions" -> 4

\* libpq: PQnfields(NULL) is 0
PQnfields(res) == IF res.kind = "res" THEN N_COLS(res.ctx) ELSE 0

\* pgrescpy(p_arr, p_res, n_rows, n_cols) reads a cell p_res does not have
baseline_short(base, c) ==
  /\ PQntuples(c) > 0
  /\ \/ base.kind # "res"
     \/ base.rows < PQntuples(c)
     \/ PQnfields(base) < PQnfields(c)

\* a tick was run: the branch taken, whether diff_arrays, sort_array and
\* print_data ran, whether the baseline came from the console and view the
\* current result came from ("none" when one of them is no result), and
\* whether pgrescpy read baseline cells that do not exist; the summary
\* window was sampled (main 1461-1471) and the query sent (1476-1479)
TickObs(path, c, base, did) ==
  [ op |-> "tick", msg |-> "", msgno |-> 0,
    path |-> path, diffed |-> did, sorted |-> did, rendered |-> did,
    src |-> (IF ~did \/ base.kind # "res" \/ c.kind # "res" THEN "none"
             ELSE IF base.con = c.con /\ base.ctx = c.ctx THEN "same"
             ELSE "other"),
    short |-> (did /\ baseline_short(base, c)),
    sampled |-> TRUE, queried |-> TRUE ]

\* the tick without the first_iter test
tick_path_no_first(fi, npr, c) ==
  IF npr < PQntuples(c) THEN "grow" ELSE "render"

\* the tick rebasing when the row count has not shrunk
tick_path_grow_le(fi, npr, c) ==
  IF fi THEN "first"
  ELSE IF npr <= PQntuples(c) THEN "grow"
  ELSE "render"

\* which branch of the tick is taken
tick_path(fi, npr, c) ==
  IF fi THEN "first"
  ELSE IF npr < PQntuples(c) THEN "grow"
  ELSE "render"

\* prepare_query + do_query on the active console
Fetched(ok, rows) ==
  do_query(console_index, screens[console_index].current_context, ok, rows)

\* main 1485-1490: first iteration, the snapshot becomes the baseline
FirstIterStep ==
  /\ pc = "run"
  /\ \E ok \in BOOLEAN, rows \in 0 .. MaxRows :
       LET c == Fetched(ok, rows)
       IN  /\ tick_path(first_iter, n_prev_rows, c) = "first"
           /\ c_res' = c
           /\ p_res' = c
           /\ first_iter' = FALSE
           /\ last' = TickObs("first", c, p_res, FALSE)
  /\ UNCHANGED << screens, console_index, console_no, n_prev_rows, pc >>

\* main 1497-1502: more rows than before, the snapshot becomes the baseline
RebaseStep ==
  /\ pc = "run"
  /\ \E ok \in BOOLEAN, rows \in 0 .. MaxRows :
       LET c == Fetched(ok, rows)
       IN  /\ tick_path(first_iter, n_prev_rows, c) = "grow"
           /\ c_res' = c
           /\ p_res' = c
           /\ n_prev_rows' = PQntuples(c)
           /\ last' = TickObs("grow", c, p_res, FALSE)
  /\ UNCHANGED << screens, console_index, console_no, first_iter, pc >>

\* main 1504-1535: diff against the baseline, sort, print; then the snapshot
\* becomes the baseline.  Copying a baseline cell that does not exist passes
\* a null pointer to strcpy: the process crashes or goes on.
RenderStep ==
  /\ pc = "run"
  /\ \E ok \in BOOLEAN, rows \in 0 .. MaxRows :
       LET c == Fetched(ok, rows)
       IN  /\ tick_path(first_iter, n_prev_rows, c) = "render"
           /\ c_res' = c
           /\ \/ /\ p_res' = c
                 /\ n_prev_rows' = PQntuples(c)
                 /\ last' = TickObs("render", c, p_res, TRUE)
                 /\ pc' = "run"
              \/ /\ baseline_short(p_res, c)
                 /\ last' = TickObs("crash", c, p_res, FALSE)
                 /\ pc' = "crashed"
                 /\ UNCHANGED << p_res, n_prev_rows >>
  /\ UNCHANGED << screens, console_index, console_no, first_iter >>

\* a tick consumes no key
TickIdle == UNCHANGED << nkeys, run, tab, host, given >>

TickFirstIter == FirstIterStep /\ TickIdle
TickRebase == RebaseStep /\ TickIdle
TickRender == RenderStep /\ TickIdle

Tick == TickFirstIter \/ TickRebase \/ TickRender

(***************************************************************************)
(* The program: startup, then the main loop.                               *)
(***************************************************************************)
\* values an uninitialised int may hold, relative to the row counts
UninitInts == (-1) .. (MaxRows + 1)

Init ==
  /\ \E n \in 1 .. MaxConfigured : screens = startup_screens(n)
  /\ console_index = 0
  /\ console_no = 1
  /\ first_iter = TRUE
  /\ p_res = UninitRes
  /\ c_res = UninitRes
  /\ n_prev_rows \in UninitInts
  /\ pc = "run"
  /\ last = InitObs
  /\ nkeys = 0
  /\ run = NoRun
  /\ tab = NoTab
  /\ host = NoHost
  /\ given = NoGiven

Next ==
  \/ KeyDigit
  \/ KeyLetter
  \/ KeyRight
  \/ KeyLeft
  \/ KeyReserved
  \/ KeyOther
  \/ KeyM
  \/ TickFirstIter
  \/ TickRebase
  \/ TickRender

Spec == Init /\ [][Next]_vars

(***************************************************************************)
(* The sort keys of the active console: the view and arrow keys alone,     *)
(* from the state after startup and one tick (which returned no rows),     *)
(* with any configured console active and first_iter set or cleared.       *)
(***************************************************************************)
\* the views with a sort column, and the columns that can be the sort
\* column of each (for pg_tables_size the three size columns before the
\* change columns as well)
SortableViews == Contexts \ {"pg_stat_activity_long"}
ViewSortMin(c) == IF c = "pg_tables_size" THEN PG_TABLES_SIZE_ORDER_MIN - 3 ELSE ORDER_MIN(c)
ViewSortMax(c) == ORDER_MAX(c)
ViewSortSize(c) == ViewSortMax(c) - ViewSortMin(c) + 1

\* the run of equal arrow keys after one more press on context c: k0 and k1
\* are the sort column before and after the press
NextRun(r, c, increment, k0, k1) ==
  IF r.n > 0 /\ r.n < ViewSortSize(c) /\ r.ctx = c /\ r.inc = increment
    THEN [r EXCEPT !.n = r.n + 1, !.seen = r.seen \cup {k1}]
    ELSE [ctx |-> c, inc |-> increment, start |-> k0, n |-> 1, seen |-> {k1}]

SortArrow(increment) ==
  /\ ArrowKey(increment)
  /\ LET c == screens[console_index].current_context
     IN  run' = NextRun(run, c, increment,
                        screens[console_index].context_list[c].order_key,
                        screens'[console_index].context_list[c].order_key)
  /\ UNCHANGED << nkeys, tab, host, given >>

SortRight == SortArrow(TRUE)
SortLeft == SortArrow(FALSE)
SortView == KeyView /\ run' = NoRun /\ UNCHANGED << nkeys, tab, host, given >>
SortOther == (KeyUpDown \/ KeyUnknown) /\ run' = NoRun /\ UNCHANGED << nkeys, tab, host, given >>

InitSort ==
  /\ \E n \in 1 .. MaxConfigured :
       /\ screens = startup_screens(n)
       /\ console_index \in 0 .. (n - 1)
  /\ console_no = console_index + 1
  /\ first_iter \in BOOLEAN
  /\ p_res = Res(0, DEFAULT_QUERY_CONTEXT, 0)
  /\ c_res = p_res
  /\ n_prev_rows = 0
  /\ pc = "run"
  /\ last = InitObs
  /\ nkeys = 0
  /\ run = NoRun
  /\ tab = NoTab
  /\ host = NoHost
  /\ given = NoGiven

NextSort ==
  \/ SortRight
  \/ SortLeft
  \/ SortView
  \/ SortOther

SpecSort == InitSort /\ [][NextSort]_vars

(***************************************************************************)
(* The result arrays.  A cell is a C string, modelled as the sequence of   *)
(* its characters; an array is indexed from 0 by row and by column.        *)
(***************************************************************************)
\* rows of the arrays given to diff_arrays and sort_array (SpecTable)
MaxTabRows == 3

\* libc atoll: leading blanks, an optional sign, then the digits there are
\* (0 when there are none); what follows the digits is ignored
atoll(s) ==
  LET i == skip_space(s, 1)
      signed == i <= Len(s) /\ s[i] \in {"-", "+"}
      v == digits_value(s, IF signed THEN i + 1 ELSE i, 0)
  IN  IF signed /\ s[i] = "-" THEN 0 - v ELSE v

RECURSIVE decimal(_)
decimal(n) ==
  IF n < 10 THEN << DigitChars[n + 1] >>
  ELSE Append(decimal(n \div 10), DigitChars[(n % 10) + 1])

\* snprintf("%lli", n)
lli_text(n) == IF n < 0 THEN << "-" >> \o decimal(0 - n) ELSE decimal(n)

\* diff_arrays: the column range of a context whose cells are subtracted
diff_bounds(context) ==
  CASE context = "pg_stat_user_functions" ->
         [min |-> PG_STAT_USER_FUNCTIONS_DIFF_COL, max |-> PG_STAT_USER_FUNCTIONS_DIFF_COL]
    [] OTHER -> [min |-> ORDER_MIN(context), max |-> ORDER_MAX(context)]

\* diff_arrays subtracting the wrong way round
diff_arrays_swapped(p_arr, c_arr, context, n_rows, n_cols) ==
  LET b == diff_bounds(context)
  IN  [ i \in 0 .. (n_rows - 1) |->
          [ j \in 0 .. (n_cols - 1) |->
              IF j < b.min \/ j > b.max
                THEN c_arr[i][j]
                ELSE lli_text(atoll(p_arr[i][j]) - atoll(c_arr[i][j])) ] ]

\* diff_arrays: res_arr
diff_arrays(p_arr, c_arr, context, n_rows, n_cols) ==
  LET b == diff_bounds(context)
  IN  [ i \in 0 .. (n_rows - 1) |->
          [ j \in 0 .. (n_cols - 1) |->
              IF j < b.min \/ j > b.max
                THEN c_arr[i][j]
                ELSE lli_text(atoll(c_arr[i][j]) - atoll(p_arr[i][j])) ] ]

\* the exchange of two rows that stops one column early
swap_rows_short(arr, i, j, n_cols) ==
  [ arr EXCEPT
      ![i] = [x \in DOMAIN arr[i] |-> IF x < n_cols - 1 THEN arr[j][x] ELSE arr[i][x]],
      ![j] = [x \in DOMAIN arr[j] |-> IF x < n_cols - 1 THEN arr[i][x] ELSE arr[j][x]] ]

\* sort_array 1101-1105: the cells of rows i and j exchanged, column by column
swap_rows(arr, i, j, n_cols) ==
  [ arr EXCEPT
      ![i] = [x \in DOMAIN arr[i] |-> IF x < n_cols THEN arr[j][x] ELSE arr[i][x]],
      ![j] = [x \in DOMAIN arr[j] |-> IF x < n_cols THEN arr[i][x] ELSE arr[j][x]] ]

\* sort_array 1098-1115: the inner loop over j, for one i
RECURSIVE sort_inner(_, _, _, _, _, _, _)
sort_inner(arr, i, j, n_rows, n_cols, order_key, desc) ==
  IF j >= n_rows THEN arr
  ELSE
    LET a1 == IF desc /\ atoll(arr[j][order_key]) > atoll(arr[i][order_key])
                THEN swap_rows(arr, i, j, n_cols) ELSE arr
        a2 == IF ~desc /\ atoll(a1[i][order_key]) > atoll(a1[j][order_key])
                THEN swap_rows(a1, i, j, n_cols) ELSE a1
    IN  sort_inner(a2, i, j + 1, n_rows, n_cols, order_key, desc)

\* sort_array 1097-1116: the outer loop over i
RECURSIVE sort_outer(_, _, _, _, _, _)
sort_outer(arr, i, n_rows, n_cols, order_key, desc) ==
  IF i >= n_rows THEN arr
  ELSE sort_outer(sort_inner(arr, i, i + 1, n_rows, n_cols, order_key, desc),
                  i + 1, n_rows, n_cols, order_key, desc)

\* sort_array without the return on pg_stat_user_functions
sort_array_functions(res_arr, n_rows, n_cols, screen) ==
  LET order_key == screen.context_list[screen.current_context].order_key
      desc == screen.context_list[screen.current_context].order_desc
  IN  IF order_key = INVALID_ORDER_KEY THEN res_arr
      ELSE sort_outer(res_arr, 0, n_rows, n_cols, order_key, desc)

\* sort_array taking every order for ascending
sort_array_asc(res_arr, n_rows, n_cols, screen) ==
  LET order_key == screen.context_list[screen.current_context].order_key
  IN  IF screen.current_context = "pg_stat_user_functions" THEN res_arr
      ELSE IF order_key = INVALID_ORDER_KEY THEN res_arr
      ELSE sort_outer(res_arr, 0, n_rows, n_cols, order_key, FALSE)

\* sort_array: res_arr after the call
sort_array(res_arr, n_rows, n_cols, screen) ==
  LET order_key == screen.context_list[screen.current_context].order_key
      desc == screen.context_list[screen.current_context].order_desc
  IN  IF screen.current_context = "pg_stat_user_functions" THEN res_arr
      ELSE IF order_key = INVALID_ORDER_KEY THEN res_arr
      ELSE sort_outer(res_arr, 0, n_rows, n_cols, order_key, desc)

(***************************************************************************)
(* One pass of main 1514-1517 over given arrays: diff_arrays, then         *)
(* sort_array on its result.  The cells are drawn from the integer cells   *)
(* alone or from all of CellPool, each row of the current array from a     *)
(* seed of its own.                                                        *)
(***************************************************************************)
IntPool == << << "0" >>, << "1", "2" >>, << "-", "3" >> >>
CellPool == IntPool \o << << "7", "x" >>, << "a", "b" >> >>

\* the n-th cell of the first np cells of the pool, cyclically
PoolCell(n, np) == CellPool[(n % np) + 1]

\* the screen of a console showing context c, sorted by column key
table_screen(c, key, desc) ==
  [ init_screens[0] EXCEPT
      !.current_context = c,
      !.context_list[c] = [order_key |-> key, order_desc |-> desc] ]

InitTable ==
  /\ \E c \in Contexts, n \in 0 .. MaxTabRows, desc \in BOOLEAN,
        np \in {Len(IntPool), Len(CellPool)} :
       \E key \in sort_bounds(c).min .. sort_bounds(c).max,
          sp \in 0 .. (np - 1), sc \in [0 .. (n - 1) -> 0 .. (np - 1)] :
         tab = [ step |-> "start", ctx |-> c, key |-> key, desc |-> desc, n_rows |-> n,
                 p |-> [i \in 0 .. (n - 1) |->
                          [j \in 0 .. (N_COLS(c) - 1) |-> PoolCell(sp + i + j, np)]],
                 c |-> [i \in 0 .. (n - 1) |->
                          [j \in 0 .. (N_COLS(c) - 1) |-> PoolCell(sc[i] + j * (i + 1), np)]],
                 d |-> << >>,
                 r |-> << >> ]
  /\ screens = startup_screens(1)
  /\ console_index = 0
  /\ console_no = 1
  /\ first_iter = FALSE
  /\ p_res = Res(0, tab.ctx, tab.n_rows)
  /\ c_res = p_res
  /\ n_prev_rows = tab.n_rows
  /\ pc = "run"
  /\ last = InitObs
  /\ nkeys = 0
  /\ run = NoRun
  /\ host = NoHost
  /\ given = NoGiven

OtherVars ==
  << screens, console_index, console_no, first_iter, p_res, c_res,
     n_prev_rows, pc, last, nkeys, run, host, given >>

\* main 1514
TableDiff ==
  /\ tab.step = "start"
  /\ tab' = [tab EXCEPT !.step = "diffed",
                        !.d = diff_arrays(tab.p, tab.c, tab.ctx, tab.n_rows, N_COLS(tab.ctx))]
  /\ UNCHANGED OtherVars

\* main 1517
TableSort ==
  /\ tab.step = "diffed"
  /\ tab' = [tab EXCEPT !.step = "sorted",
                        !.r = sort_array(tab.d, tab.n_rows, N_COLS(tab.ctx),
                                         table_screen(tab.ctx, tab.key, tab.desc))]
  /\ UNCHANGED OtherVars

NextTable ==
  \/ TableDiff
  \/ TableSort

SpecTable == InitTable /\ [][NextTable]_vars

(***************************************************************************)
(* The min age prompt: 'm' on pg_stat_activity_long, over the texts that   *)
(* cmd_readline can hand to change_min_age.                                *)
(***************************************************************************)
\* the texts committed: well formed ones, ones out of range, and ones of
\* other shapes (trailing text, fewer fields, no digits, blank, signed)
AgeTexts ==
  { << "0", "0", ":", "0", "0", ":", "0", "0" >>,
    << "2", "3", ":", "5", "9", ":", "5", "9" >>,
    << "0", "1", ":", "0", "2", ":", "0", "3", ".", "9", "9" >>,
    << "0", "0", ":", "0", "5", ":", "0", "0" >>,
    << "2", "4", ":", "0", "0", ":", "0", "0" >>,
    << "0", "0", ":", "6", "0", ":", "0", "0" >>,
    << "0", "0", ":", "0", "0", ":", "6", "0" >>,
    << "0", "0", ":", "0", "5", ":", "0", "0", "x" >>,
    << >>,
    << "a", "b", "c" >>,
    << "1", "2" >>,
    << "1", "2", ":", "3", "0" >>,
    << " " >>,
    << "-", "1", ":", "0", "0", ":", "0", "0" >>,
    << "1", ":", "2", ":", "3" >>,
    << ":", "0", "0", ":", "0", "0" >>,
    << "0", "0", ":", "0", "5", ":" >> }

AgeResults ==
  {[str |-> << >>, with_esc |-> TRUE]} \cup {[str |-> t, with_esc |-> FALSE] : t \in AgeTexts}

\* main, case 'm', with the text read and the min age before the call recorded
AgeKey(inp) ==
  /\ \E junk \in JunkChoices : KeyMinAgeOf(inp, junk)
  /\ given' = [ kind |-> "min_age", str |-> inp.str, with_esc |-> inp.with_esc,
                old |-> screens[console_index].pg_stat_activity_min_age ]
  /\ UNCHANGED << nkeys, run, tab, host >>

AgeCommit == \E inp \in AgeResults : ~inp.with_esc /\ AgeKey(inp)
AgeCancel == \E inp \in AgeResults : inp.with_esc /\ AgeKey(inp)

\* console 0 shows pg_stat_activity_long, after 'l' and its first tick
InitAge ==
  /\ screens = [startup_screens(1) EXCEPT ![0].current_context = "pg_stat_activity_long"]
  /\ console_index = 0
  /\ console_no = 1
  /\ first_iter = FALSE
  /\ p_res = Res(0, "pg_stat_activity_long", 0)
  /\ c_res = p_res
  /\ n_prev_rows = 0
  /\ pc = "run"
  /\ last = InitObs
  /\ nkeys = 0
  /\ run = NoRun
  /\ tab = NoTab
  /\ host = NoHost
  /\ given = NoGiven

NextAge ==
  \/ AgeCommit
  \/ AgeCancel

SpecAge == InitAge /\ [][NextAge]_vars

(***************************************************************************)
(* The line editor: 'm' on pg_stat_activity_long with cmd_readline read    *)
(* key by key.  The keys typed are the characters of EditText in turn,     *)
(* Backspace/Delete, ESC and Enter.                                        *)
(***************************************************************************)
\* pgcenter.h: the size of change_min_age's buffer min_age
BUFFERSIZE_S == 16

\* keys read by one call of cmd_readline (SpecEdit)
MaxTyped == 18

\* the character the user types into column i of the line
EditText ==
  << "2", "3", ":", "5", "9", ":", "5", "9", ".", "5", "0", "0", "0", "0", "0", "0",
     "0", "0", "0", "0", "0", "0", "0", "0" >>

\* cmd_readline handing back the typed line on ESC as it does on Enter
cmd_readline_key_esc_commits(e, ch) ==
  CASE ch \in {"ESC", "ENTER"} ->
         [e EXCEPT !.ret = "enter", !.str = SubSeq(e.buf, 1, e.i),
                   !.oob = @ \/ e.i >= BUFFERSIZE_S]
    [] ch = "BACKSPACE" -> [e EXCEPT !.i = IF e.i > 0 THEN e.i - 1 ELSE e.i]
    [] OTHER ->
         [e EXCEPT !.buf = IF e.i < Len(e.buf) THEN [e.buf EXCEPT ![e.i + 1] = ch]
                           ELSE Append(e.buf, ch),
                   !.i = e.i + 1,
                   !.oob = @ \/ e.i >= BUFFERSIZE_S]

\* cmd_readline 1258-1283, one pass of the loop with wgetch returning ch: i,
\* the cells of str written so far (buf), and at a return the string handed
\* back; oob: a cell str[i] with i >= BUFFERSIZE_S was written
cmd_readline_key(e, ch) ==
  CASE ch = "ESC" -> [e EXCEPT !.ret = "esc", !.str = << >>]
    [] ch = "ENTER" ->
         [e EXCEPT !.ret = "enter", !.str = SubSeq(e.buf, 1, e.i),
                   !.oob = @ \/ e.i >= BUFFERSIZE_S]
    [] ch = "BACKSPACE" -> [e EXCEPT !.i = IF e.i > 0 THEN e.i - 1 ELSE e.i]
    [] OTHER ->
         [e EXCEPT !.buf = IF e.i < Len(e.buf) THEN [e.buf EXCEPT ![e.i + 1] = ch]
                           ELSE Append(e.buf, ch),
                   !.i = e.i + 1,
                   !.oob = @ \/ e.i >= BUFFERSIZE_S]

\* main 1443-1445, change_min_age 1297-1309: 'm' pressed, the prompt is shown
\* and cmd_readline starts with i = 0
EditStart ==
  /\ pc = "run"
  /\ given.phase = "idle"
  /\ screens[console_index].current_context = "pg_stat_activity_long"
  /\ given' = [ kind |-> "edit", phase |-> "reading", i |-> 0, buf |-> << >>, n |-> 0,
                ret |-> "none", str |-> << >>, oob |-> FALSE, low |-> 0, key |-> "",
                old |-> screens[console_index].pg_stat_activity_min_age ]
  /\ UNCHANGED << screens, console_index, console_no, first_iter, p_res, c_res,
                  n_prev_rows, pc, last, nkeys, run, tab, host >>

\* cmd_readline reads a key that does not end the line; a write past the
\* end of min_age ends the process or leaves it running
EditMore(ch) ==
  /\ pc = "run"
  /\ given.phase = "reading"
  /\ given.n < MaxTyped
  /\ LET e == cmd_readline_key(given, ch)
     IN  /\ given' = [e EXCEPT !.n = given.n + 1, !.low = IF e.i < @ THEN e.i ELSE @]
         /\ IF e.oob /\ ~given.oob THEN pc' \in {"crashed", "run"} ELSE pc' = pc
  /\ UNCHANGED << screens, console_index, console_no, first_iter, p_res, c_res,
                  n_prev_rows, last, nkeys, run, tab, host >>

EditType == EditMore(EditText[given.i + 1])
EditErase == EditMore("BACKSPACE")

\* cmd_readline returns on ch (ESC or Enter); change_min_age 1310-1325 and
\* main 1446 follow
EditReturn(ch) ==
  /\ given.phase = "reading"
  /\ LET e == cmd_readline_key(given, ch)
     IN  /\ \E junk \in JunkChoices :
               KeyMinAgeOf([str |-> e.str, with_esc |-> (e.ret = "esc")], junk)
         /\ given' = [e EXCEPT !.phase = "idle", !.key = ch]
  /\ UNCHANGED << nkeys, run, tab, host >>

EditEsc == EditReturn("ESC")
EditEnter == EditReturn("ENTER")

InitEdit ==
  /\ screens = [startup_screens(1) EXCEPT ![0].current_context = "pg_stat_activity_long"]
  /\ console_index = 0
  /\ console_no = 1
  /\ first_iter = FALSE
  /\ p_res = Res(0, "pg_stat_activity_long", 0)
  /\ c_res = p_res
  /\ n_prev_rows = 0
  /\ pc = "run"
  /\ last = InitObs
  /\ nkeys = 0
  /\ run = NoRun
  /\ tab = NoTab
  /\ host = NoHost
  /\ given = [kind |-> "edit", phase |-> "idle", i |-> 0, buf |-> << >>, n |-> 0,
              ret |-> "none", str |-> << >>, oob |-> FALSE, low |-> 0, key |-> "",
              old |-> PG_STAT_ACTIVITY_MIN_AGE_DEFAULT]

NextEdit ==
  \/ EditStart
  \/ EditType
  \/ EditErase
  \/ EditEsc
  \/ EditEnter

SpecEdit == InitEdit /\ [][NextEdit]_vars

(***************************************************************************)
(* A view switch and the ticks around it: up to MaxTicks ticks, one view   *)
(* key, then up to MaxTicks ticks, each tick recorded with the branch it   *)
(* took, its result and the row count it was compared with.                *)
(***************************************************************************)
\* ticks recorded before and after the view key (SpecSwitch)
MaxTicks == 3

TicksOf(key, ticks) == [kind |-> "ticks", key |-> key, ticks |-> ticks]

\* main 1476-1535: the query results still allocated after the recorded
\* ticks.  do_query returns a new PGresult for every query that succeeds
\* (and clears the one of a query that fails); p_res = c_res only copies the
\* pointer and no branch of the tick calls PQclear, so none is released.
live_results(ticks) == Cardinality({ k \in 1 .. Len(ticks) : ticks[k].kind = "res" })

SwitchTick ==
  /\ Len(given.ticks) < MaxTicks
  /\ FirstIterStep \/ RebaseStep \/ RenderStep
  /\ given' = TicksOf(given.key,
                      Append(given.ticks,
                             [ path |-> last'.path, kind |-> c_res'.kind,
                               rows |-> PQntuples(c_res'), npr |-> n_prev_rows ]))
  /\ UNCHANGED << nkeys, run, tab, host >>

SwitchKey ==
  /\ nkeys = 0
  /\ nkeys' = 1
  /\ \E k \in ViewKeys : KeyViewOf(k) /\ given' = TicksOf(k, << >>)
  /\ UNCHANGED << run, tab, host >>

InitSwitch ==
  /\ screens = startup_screens(1)
  /\ console_index = 0
  /\ console_no = 1
  /\ first_iter = TRUE
  /\ p_res = UninitRes
  /\ c_res = UninitRes
  /\ n_prev_rows \in UninitInts
  /\ pc = "run"
  /\ last = InitObs
  /\ nkeys = 0
  /\ run = NoRun
  /\ tab = NoTab
  /\ host = NoHost
  /\ given = TicksOf("", << >>)

NextSwitch ==
  \/ SwitchTick
  \/ SwitchKey

SpecSwitch == InitSwitch /\ [][NextSwitch]_vars

(***************************************************************************)
(* Quiet running: after some ticks and at most one key (phase "free"), no  *)
(* further key arrives and every query succeeds with the same number of    *)
(* rows (phase "settled") until a table is printed (phase "done").  The    *)
(* loop of main never blocks in this phase, so its tick is taken whenever   *)
(* it stays enabled.                                                       *)
(***************************************************************************)
LiveFreeTick ==
  /\ given.phase = "free"
  /\ given.free < MaxTicks
  /\ FirstIterStep \/ RebaseStep \/ RenderStep
  /\ given' = [given EXCEPT !.free = @ + 1]
  /\ UNCHANGED << nkeys, run, tab, host >>

\* the one key: a view key or a console key
LiveFreeKey ==
  /\ given.phase = "free"
  /\ nkeys = 0
  /\ nkeys' = 1
  /\ KeyView \/ KeyConsole
  /\ given' = [given EXCEPT !.free = 0]
  /\ UNCHANGED << run, tab, host >>

\* from here on no key is pressed and every query returns `rows` rows
LiveSettle ==
  /\ given.phase = "free"
  /\ pc = "run"
  /\ \E rows \in 0 .. MaxRows : given' = [given EXCEPT !.phase = "settled", !.rows = rows]
  /\ UNCHANGED << screens, console_index, console_no, first_iter, p_res, c_res,
                  n_prev_rows, pc, last, nkeys, run, tab, host >>

\* main 1476-1535 with the query succeeding and returning given.rows rows;
\* skips counts the ticks that took a skip path since the settling
LiveTick ==
  /\ given.phase = "settled"
  /\ FirstIterStep \/ RebaseStep \/ RenderStep
  /\ c_res'.kind = "res"
  /\ c_res'.rows = given.rows
  /\ given' = IF last'.rendered THEN [given EXCEPT !.phase = "done"]
              ELSE IF last'.path \in {"first", "grow"} THEN [given EXCEPT !.skips = @ + 1]
              ELSE given
  /\ UNCHANGED << nkeys, run, tab, host >>

InitLive ==
  /\ screens = startup_screens(2)
  /\ console_index = 0
  /\ console_no = 1
  /\ first_iter = TRUE
  /\ p_res = UninitRes
  /\ c_res = UninitRes
  /\ n_prev_rows \in UninitInts
  /\ pc = "run"
  /\ last = InitObs
  /\ nkeys = 0
  /\ run = NoRun
  /\ tab = NoTab
  /\ host = NoHost
  /\ given = [kind |-> "live", phase |-> "free", free |-> 0, rows |-> 0, skips |-> 0]

NextLive ==
  \/ LiveFreeTick
  \/ LiveFreeKey
  \/ LiveSettle
  \/ LiveTick

SpecLive == InitLive /\ [][NextLive]_vars /\ WF_vars(LiveTick)

(***************************************************************************)
(* The host summary of a tick: print_loadavg and print_cpu_usage over the  *)
(* contents of /proc.  A percentage is kept in tenths (what %4.1f shows);  *)
(* unsigned long long arithmetic wraps at ULL_MOD, a narrow stand-in for   *)
(* 2^64.                                                                   *)
(***************************************************************************)
HZ == 100
ULL_MOD == 65536

CpuFields == {"user", "nice", "sys", "idle", "iowait", "steal", "hardirq", "softirq"}
BaseCpu == [f \in CpuFields |-> 10]

\* the "cpu " line of /proc/stat: every counter at 10, one counter higher,
\* or sys lower while softirq is higher
CpuSamples ==
  {BaseCpu} \cup {[BaseCpu EXCEPT ![f] = 20] : f \in CpuFields}
            \cup {[BaseCpu EXCEPT !.sys = 5, !.softirq = 20]}

\* /proc: whether loadavg and uptime can be opened and read, whether stat
\* can be opened, and its cpu line
ProcStates ==
  [ loadavg : {"absent", "unreadable", "ok"}, uptime : {"absent", "ok"},
    stat_open : {TRUE}, cpu : CpuSamples ]
  \cup [ loadavg : {"absent", "ok"}, uptime : {"ok"}, stat_open : {FALSE}, cpu : {BaseCpu} ]

\* values an uninitialised float may hold, next to the value 1 of the file
UninitLoads == {0, 7}

\* pgcenter.h: SP_VALUE(m, n, p), in tenths of a percent
SP_VALUE(m, n, p) == ((n - m) * 1000) \div p

\* ll_sp_value without the test for a counter that went backward
ll_sp_value_noclamp(value1, value2, itv) == SP_VALUE(value1, value2, itv)

ll_sp_value(value1, value2, itv) ==
  IF value2 < value1 THEN 0 ELSE SP_VALUE(value1, value2, itv)

get_interval(prev_uptime, curr_uptime) ==
  LET itv == (curr_uptime - prev_uptime) % ULL_MOD
  IN  IF itv = 0 THEN 1 ELSE itv

\* the percentages write_cpu_stat_raw prints: c is st_cpu[curr], p is st_cpu[!curr]
write_cpu_stat_raw(p, c, itv) ==
  [ us |-> ll_sp_value(p.user, c.user, itv),
    sy |-> ll_sp_value(p.sys + p.softirq + p.hardirq, c.sys + c.softirq + c.hardirq, itv),
    ni |-> ll_sp_value(p.nice, c.nice, itv),
    id |-> IF c.idle < p.idle THEN 0 ELSE ll_sp_value(p.idle, c.idle, itv),
    wa |-> ll_sp_value(p.iowait, c.iowait, itv),
    hi |-> ll_sp_value(p.hardirq, c.hardirq, itv),
    si |-> ll_sp_value(p.softirq, c.softirq, itv),
    st |-> ll_sp_value(p.steal, c.steal, itv) ]

\* read_cpu_stat: the sum of the counters of a cpu line (guest counters 0)
cpu_total(c) ==
  c.user + c.nice + c.sys + c.idle + c.iowait + c.steal + c.hardirq + c.softirq

\* print_cpu_usage on host state h: read_uptime (1.00 s when it can be read;
\* otherwise read_cpu_stat fills uptime0 from the cpu0 line, here equal to
\* the cpu line), read_cpu_stat, get_interval, write_cpu_stat_raw, curr ^= 1
print_cpu_usage(h, proc) ==
  LET c == h.curr
      st == [h.st_cpu EXCEPT ![c] = proc.cpu]
      up == [h.uptime EXCEPT ![c] = cpu_total(proc.cpu)]
      up0 == [h.uptime0 EXCEPT ![c] = IF proc.uptime = "ok" THEN 1 * HZ + (0 * HZ) \div 100
                                       ELSE cpu_total(proc.cpu)]
  IN  [ h EXCEPT !.st_cpu = st, !.uptime = up, !.uptime0 = up0, !.curr = 1 - c,
                 !.cpu = write_cpu_stat_raw(st[1 - c], st[c], get_interval(up[1 - c], up[c])) ]

\* init_stats and the statics of print_cpu_usage
init_stats ==
  [ step |-> "host", curr |-> 1,
    st_cpu |-> [i \in 0 .. 1 |-> [f \in CpuFields |-> 0]],
    uptime |-> [i \in 0 .. 1 |-> 0], uptime0 |-> [i \in 0 .. 1 |-> 0],
    cpu |-> write_cpu_stat_raw(BaseCpu, BaseCpu, 1), load |-> 0 ]

\* main 1466-1468: get_loadavg exits when /proc/loadavg cannot be opened and
\* returns an unassigned float when nothing can be read from it;
\* read_cpu_stat exits when /proc/stat cannot be opened
HostTick ==
  /\ pc = "run"
  /\ \E proc \in ProcStates, junk \in UninitLoads :
       /\ given' = [kind |-> "proc", proc |-> proc]
       /\ IF proc.loadavg = "absent"
            THEN pc' = "exited" /\ host' = host
          ELSE IF ~proc.stat_open
            THEN pc' = "exited" /\ host' = [host EXCEPT !.load = 1]
          ELSE /\ pc' = "run"
               /\ host' = [ print_cpu_usage(host, proc) EXCEPT
                              !.load = IF proc.loadavg = "ok" THEN 1 ELSE junk ]
  /\ UNCHANGED << screens, console_index, console_no, first_iter, p_res, c_res,
                  n_prev_rows, last, nkeys, run, tab >>

InitHost ==
  /\ screens = startup_screens(1)
  /\ console_index = 0
  /\ console_no = 1
  /\ first_iter = TRUE
  /\ p_res = UninitRes
  /\ c_res = UninitRes
  /\ n_prev_rows = 0
  /\ pc = "run"
  /\ last = InitObs
  /\ nkeys = 0
  /\ run = NoRun
  /\ tab = NoTab
  /\ host = init_stats
  /\ given = NoGiven

NextHost ==
  \/ HostTick

SpecHost == InitHost /\ [][NextHost]_vars

(***************************************************************************)
(* Startup: main 1352-1358 under every command line and connection file.   *)
(***************************************************************************)
MaxRcLines == 9

\* command lines: the options given, up to three positional arguments; quit
\* stands for -?, --help, --version, -V or an unknown option
Argvs ==
  [ quit : {FALSE}, opts : SUBSET {"h", "p", "U", "d", "W"},
    pos : { << >>, << "mydb" >>, << "mydb", "alice" >>, << "mydb", "alice", "extra" >> } ]
    \cup { [quit |-> TRUE, opts |-> {}, pos |-> << >>] }

\* main 1353: argc > 1
argc_gt_1(args) == args.quit \/ args.opts # {} \/ args.pos # << >>

\* states of ~/.pgcenterrc
RcFiles ==
  { [exists |-> FALSE, mode |-> [g |-> 0, o |-> 0], openable |-> FALSE, n |-> 0, shape |-> "full"],
    [exists |-> TRUE, mode |-> [g |-> 0, o |-> 0], openable |-> FALSE, n |-> 0, shape |-> "full"] }
    \cup [ exists : {TRUE}, mode : { [g |-> 4, o |-> 0], [g |-> 0, o |-> 1], [g |-> 6, o |-> 4] },
           openable : {TRUE}, n : {2}, shape : {"full"} ]
    \cup [ exists : {TRUE}, mode : { [g |-> 0, o |-> 0] }, openable : {TRUE},
           n : 0 .. MaxRcLines, shape : {"full", "short", "gap"} ]

\* main 1353-1354: create_initial_conn when arguments are given
StartCli ==
  /\ pc = "start"
  /\ argc_gt_1(given.args)
  /\ IF given.args.quit
       THEN pc' = "exited" /\ UNCHANGED screens
       ELSE pc' = "cli" /\ screens' = create_initial_conn(screens, given.args)
  /\ UNCHANGED << console_index, console_no, first_iter, p_res, c_res, n_prev_rows,
                  last, nkeys, run, tab, host, given >>

\* main 1355, 1357: create_pgcenterrc_conn from console 1 after the command
\* line, from console 0 without one; a write through screens[i], i >=
\* MAX_CONSOLE, ends the process or leaves it running
StartRc ==
  /\ \/ pc = "cli"
     \/ pc = "start" /\ ~argc_gt_1(given.args)
  /\ LET pos == IF pc = "cli" THEN 1 ELSE 0
         r == create_pgcenterrc_conn(screens, pos, given.rc)
     IN  /\ screens' = r.screens
         /\ given' = [given EXCEPT !.pos = pos, !.ret = r.ret, !.next = r.next, !.oob = r.oob]
         /\ IF r.oob THEN pc' \in {"crashed", "run"}
            ELSE IF pc = "start" /\ r.ret = "PGCENTERRC_READ_ERR" THEN pc' = "fallback"
            ELSE pc' = "run"
  /\ UNCHANGED << console_index, console_no, first_iter, p_res, c_res, n_prev_rows,
                  last, nkeys, run, tab, host >>

\* main 1357-1358: create_initial_conn after the connection file was not read
StartFallback ==
  /\ pc = "fallback"
  /\ screens' = create_initial_conn(screens, given.args)
  /\ pc' = "run"
  /\ UNCHANGED << console_index, console_no, first_iter, p_res, c_res, n_prev_rows,
                  last, nkeys, run, tab, host, given >>

\* main 1334-1352: after init_screens
InitStart ==
  /\ screens = init_screens
  /\ console_index = 0
  /\ console_no = 1
  /\ first_iter = TRUE
  /\ p_res = UninitRes
  /\ c_res = UninitRes
  /\ n_prev_rows = 0
  /\ pc = "start"
  /\ last = InitObs
  /\ nkeys = 0
  /\ run = NoRun
  /\ tab = NoTab
  /\ host = NoHost
  /\ \E args \in Argvs, rc \in RcFiles :
       given = [kind |-> "start", args |-> args, rc |-> rc, pos |-> -1,
                ret |-> "none", next |-> -1, oob |-> FALSE]

NextStart ==
  \/ StartCli
  \/ StartRc
  \/ StartFallback

SpecStart == InitStart /\ [][NextStart]_vars

(***************************************************************************)
(* Properties.                                                             *)
(***************************************************************************)
ActiveKey(c) == screens[console_index].context_list[c].order_key

\* C1: on a sortable view, a run of n presses of the same arrow key from
\* column `start` first returns to `start` when n is the number of sortable
\* columns, and has then visited every sortable column.
SortWraparound ==
  (run.n > 0 /\ run.ctx \in SortableViews) =>
     /\ run.n <= ViewSortSize(run.ctx)
     /\ run.n < ViewSortSize(run.ctx) => ActiveKey(run.ctx) # run.start
     /\ run.n = ViewSortSize(run.ctx) =>
          /\ ActiveKey(run.ctx) = run.start
          /\ run.seen = ViewSortMin(run.ctx) .. ViewSortMax(run.ctx)

\* C1 witness: six right arrows on pg_tables_size from its initial column
SortWraparoundWitness ==
  /\ run.ctx = "pg_tables_size"
  /\ run.inc
  /\ run.start = init_screens[0].context_list["pg_tables_size"].order_key
  /\ run.n = ViewSortSize("pg_tables_size")
  /\ run.n = 6

\* the sort column of every sortable view of every console is a sortable column
KeysInRange ==
  \A i \in Consoles, c \in SortableViews :
    /\ ViewSortMin(c) <= screens[i].context_list[c].order_key
    /\ screens[i].context_list[c].order_key <= ViewSortMax(c)

\* C2 as stated: the sort column is always a sortable column, and at startup
\* it is the first sortable column of every sortable view.
SortKeyDefaultIsMin ==
  /\ KeysInRange
  /\ last.op = "init" =>
       \A i \in Consoles, c \in SortableViews :
         screens[i].context_list[c].order_key = ViewSortMin(c)

\* C2 amended: the sort column is always a sortable column; at startup it is
\* the first sortable column, except on pg_tables_size where it is the
\* fourth (the first change column).
SortKeyInRange ==
  /\ KeysInRange
  /\ last.op = "init" =>
       \A i \in Consoles, c \in SortableViews :
         screens[i].context_list[c].order_key =
           (IF c = "pg_tables_size" THEN ViewSortMin(c) + 3 ELSE ViewSortMin(c))

\* C2 witness: pg_tables_size sorted by its first size column, below the
\* column it starts on
SortKeyInRangeWitness ==
  /\ last.op = "key"
  /\ screens[console_index].current_context = "pg_tables_size"
  /\ ActiveKey("pg_tables_size") = ViewSortMin("pg_tables_size")
  /\ ActiveKey("pg_tables_size") < PG_TABLES_SIZE_ORDER_MIN

\* C3: a tick run with first_iter set prints nothing, makes the result it
\* fetched the baseline and clears first_iter.
FirstTickRebases ==
  [][ (Tick /\ first_iter) =>
        /\ ~last'.rendered
        /\ ~last'.diffed
        /\ p_res' = c_res'
        /\ ~first_iter' ]_vars

\* C3 witness: after a view key, the first tick has made a result the baseline
FirstTickRebasesWitness ==
  /\ last.op = "tick"
  /\ last.path = "first"
  /\ nkeys > 0
  /\ p_res.kind = "res"
  /\ p_res.ctx = "pg_stat_replication"
  /\ ~first_iter

\* C4 as stated: when a tick returns more rows than the tick before it, it
\* prints nothing and the larger result becomes the baseline with its row
\* count; a tick that follows such a rebase with the same row count prints a
\* diff.
GrowthRebases ==
  [][ (last.op = "tick" /\ Tick /\ c_res.kind = "res" /\ c_res'.kind = "res") =>
        /\ c_res.rows < c_res'.rows =>
             /\ ~last'.rendered
             /\ p_res' = c_res'
             /\ n_prev_rows' = c_res'.rows
        /\ (last.path = "grow" /\ c_res'.rows = c_res.rows) =>
             /\ last'.rendered
             /\ last'.diffed ]_vars

\* C7 as stated (for a tick that has a baseline result): a tick whose query
\* fails does not diff, sort or print and leaves the baseline and its row
\* count as they were.
QueryFailureSkips ==
  [][ (Tick /\ p_res.kind = "res" /\ c_res'.kind = "null") =>
        /\ ~last'.diffed
        /\ ~last'.sorted
        /\ ~last'.rendered
        /\ UNCHANGED << p_res, n_prev_rows >> ]_vars

\* C8 as stated (for a diff of at least one row whose baseline has the rows
\* read): a diff is only computed between two results of the same console
\* and view.
DiffSameSource ==
  (last.diffed /\ ~last.short /\ c_res.rows > 0) => last.src # "other"

\* the view each letter stands for
KeyViewTable ==
  [ d |-> "pg_stat_database", r |-> "pg_stat_replication",
    t |-> "pg_stat_user_tables", i |-> "pg_stat_user_indexes",
    y |-> "pg_statio_user_tables", s |-> "pg_tables_size",
    l |-> "pg_stat_activity_long", f |-> "pg_stat_user_functions" ]

\* C9: each view key makes its view the active console's view and sets
\* first_iter.
ViewKeySelects ==
  [][ \A k \in ViewKeys :
        KeyViewOf(k) =>
          /\ screens'[console_index].current_context = KeyViewTable[k]
          /\ first_iter' ]_vars

\* C9 witness: 's' was pressed after a tick had cleared first_iter
ViewKeySelectsWitness ==
  /\ last.op = "key"
  /\ screens[console_index].current_context = "pg_tables_size"
  /\ p_res.kind = "res"
  /\ first_iter

\* C10: a digit key whose console has no connection leaves the active
\* console as it is and reports its number; a digit key whose console has a
\* connection makes that console the active one.
SwitchRefused ==
  [][ \A ch \in 1 .. 8 :
        KeyConsoleOf(ch) =>
          IF screens[ch - 1].conn_used
            THEN console_index' = ch - 1
            ELSE /\ console_index' = console_index
                 /\ last'.msgno = console_index + 1 ]_vars

\* C10 witness: a switch was refused while console 2 was active
SwitchRefusedWitness ==
  /\ last.op = "key"
  /\ last.msg = "Do not switch because no connection associated (stay on console %i)"
  /\ last.msgno = 2
  /\ console_index = 1

\* the columns of a view shown as differences
ViewDiffCols(c) ==
  CASE c = "pg_stat_activity_long" -> {}
    [] c = "pg_stat_user_functions" -> {PG_STAT_USER_FUNCTIONS_DIFF_COL}
    [] OTHER -> ORDER_MIN(c) .. ORDER_MAX(c)

\* the cell is the decimal text of an integer
IsIntText(cell) == cell # << >> /\ lli_text(atoll(cell)) = cell

TabRows == 0 .. (tab.n_rows - 1)
TabCols == 0 .. (N_COLS(tab.ctx) - 1)

\* the arrays hold integers in every diff column
DiffColsAreInts ==
  \A i \in TabRows, j \in ViewDiffCols(tab.ctx) \cap TabCols :
    IsIntText(tab.p[i][j]) /\ IsIntText(tab.c[i][j])

\* C5: when the cells of both arrays in the view's diff columns are integers,
\* every result cell in a diff column is the current value minus the previous
\* one, and every other result cell is the current cell.
DiffCorrect ==
  (tab.step \in {"diffed", "sorted"} /\ DiffColsAreInts) =>
      \A i \in TabRows, j \in TabCols :
        IF j \in ViewDiffCols(tab.ctx)
          THEN /\ IsIntText(tab.d[i][j])
               /\ atoll(tab.d[i][j]) = atoll(tab.c[i][j]) - atoll(tab.p[i][j])
          ELSE tab.d[i][j] = tab.c[i][j]

\* C5 witness: a diff of three rows on pg_stat_database with integers in its
\* five diff columns, one of which went from 12 to -3
DiffCorrectWitness ==
  /\ tab.step = "diffed"
  /\ tab.ctx = "pg_stat_database"
  /\ tab.n_rows = 3
  /\ DiffColsAreInts
  /\ \E i \in TabRows, j \in ViewDiffCols(tab.ctx) :
       /\ tab.p[i][j] = << "1", "2" >>
       /\ tab.c[i][j] = << "-", "3" >>
       /\ tab.d[i][j] = << "-", "1", "5" >>

\* C6: the sorted array holds the rows of the array given to sort_array,
\* each as many times as it was there.
RowsMoveAtomically ==
  tab.step = "sorted" =>
    /\ DOMAIN tab.r = DOMAIN tab.d
    /\ \A i \in TabRows :
         Cardinality({k \in TabRows : tab.r[k] = tab.r[i]})
           = Cardinality({k \in TabRows : tab.d[k] = tab.r[i]})

\* C6 witness: a sort of three rows that moved the first row to the end
RowsMoveAtomicallyWitness ==
  /\ tab.step = "sorted"
  /\ tab.n_rows = 3
  /\ tab.r[2] = tab.d[0]
  /\ tab.r[0] # tab.d[0]
  /\ tab.r[1] # tab.d[1]

\* the text has the form HH:MM:SS or HH:MM:SS.nn with hour < 24, minute < 60
\* and second < 60
TwoDigits(t, i) == IsDigit(t[i]) /\ IsDigit(t[i + 1])
TwoDigitValue(t, i) == DigitVal(t[i]) * 10 + DigitVal(t[i + 1])
WellFormedAge(t) ==
  /\ Len(t) \in {8, 11}
  /\ TwoDigits(t, 1) /\ t[3] = ":" /\ TwoDigits(t, 4) /\ t[6] = ":" /\ TwoDigits(t, 7)
  /\ Len(t) = 11 => (t[9] = "." /\ TwoDigits(t, 10))
  /\ TwoDigitValue(t, 1) < 24
  /\ TwoDigitValue(t, 4) < 60
  /\ TwoDigitValue(t, 7) < 60

\* C11 as stated: a text committed with Enter becomes the min age exactly
\* when it is well formed; any other committed text, the empty one included,
\* leaves the min age as it was.
MinAgeValidation ==
  (given.kind = "min_age" /\ ~given.with_esc) =>
     screens[console_index].pg_stat_activity_min_age =
       (IF WellFormedAge(given.str) THEN given.str ELSE given.old)

\* C12: a loop iteration that consumes a key samples nothing, sends no query,
\* diffs and prints nothing and leaves the results and the row count alone;
\* an iteration that samples or queries consumes no key.
KeysSkipSampling ==
  [][ /\ nkeys' # nkeys =>
           /\ ~last'.sampled /\ ~last'.queried /\ ~last'.diffed /\ ~last'.rendered
           /\ UNCHANGED << p_res, c_res, n_prev_rows >>
      /\ (last'.sampled \/ last'.queried) => nkeys' = nkeys ]_vars

\* C12 witness: a key was handled after two ticks had made a baseline, and
\* the baseline is still the one of those ticks
KeysSkipSamplingWitness ==
  /\ last.op = "key"
  /\ ~last.sampled
  /\ nkeys = 1
  /\ p_res.kind = "res"
  /\ p_res.rows = 2
  /\ n_prev_rows = 2

\* C13 as stated (for queries that succeed and return the same number of
\* rows): of the ticks after a view key, the first prints nothing and the
\* second prints a diff.
ViewSwitchOneSkip ==
  ( /\ given.key # ""
    /\ Len(given.ticks) >= 2
    /\ given.ticks[1].kind = "res"
    /\ given.ticks[2].kind = "res"
    /\ given.ticks[2].rows = given.ticks[1].rows ) =>
      /\ given.ticks[1].path = "first"
      /\ given.ticks[2].path = "render"

CurrCpu == host.st_cpu[1 - host.curr]
PrevCpu == host.st_cpu[host.curr]

\* the percentage printed for a counter
Printed(f) ==
  CASE f = "user" -> host.cpu.us [] f = "sys" -> host.cpu.sy [] f = "nice" -> host.cpu.ni
    [] f = "idle" -> host.cpu.id [] f = "iowait" -> host.cpu.wa
    [] f = "hardirq" -> host.cpu.hi [] f = "softirq" -> host.cpu.si
    [] f = "steal" -> host.cpu.st

\* C15 as stated: a counter smaller than in the previous sample is printed
\* as 0.0, for each of the eight categories.
CpuClampPerCounter ==
  given.kind = "proc" =>
    \A f \in CpuFields : CurrCpu[f] < PrevCpu[f] => Printed(f) = 0

\* C15 amended: the same for user, nice, idle, iowait, hardirq, softirq and
\* steal; sy is 0.0 when the sum sys + softirq + hardirq is smaller than in
\* the previous sample; no percentage is negative.
CpuClamp ==
  (given.kind = "proc" /\ pc = "run") =>
    /\ \A f \in CpuFields \ {"sys"} : CurrCpu[f] < PrevCpu[f] => Printed(f) = 0
    /\ CurrCpu.sys + CurrCpu.softirq + CurrCpu.hardirq
          < PrevCpu.sys + PrevCpu.softirq + PrevCpu.hardirq => Printed("sys") = 0
    /\ \A f \in CpuFields : Printed(f) >= 0

\* C15 witness: user went from 20 to 10 and is printed as 0.0 while idle,
\* which went up, is not
CpuClampWitness ==
  /\ given.kind = "proc"
  /\ pc = "run"
  /\ PrevCpu.user = 20
  /\ CurrCpu.user = 10
  /\ host.cpu.us = 0
  /\ host.cpu.id > 0

\* C20 as stated: when /proc/stat can be opened the loop goes on, with a load
\* average of zero when /proc/loadavg cannot be opened or read; the program
\* ends only when /proc/stat cannot be opened.
ProcFailuresNonFatal ==
  given.kind = "proc" =>
    /\ given.proc.stat_open => pc = "run"
    /\ (pc = "run" /\ given.proc.loadavg # "ok") => host.load = 0
    /\ pc = "exited" => ~given.proc.stat_open

\* the startup has finished and, if it read the connection file, it stayed
\* inside the array of consoles
Started == given.kind = "start" /\ pc = "run" /\ ~given.oob

\* C16: after a startup with connection options on the command line, console
\* 0 has conn_used, every console shows the databases view, every view of
\* every console has its ORDER_MIN as order_key with order_desc, min_age is
\* the default 00:00:00 and first_iter is true
StartupInitialState ==
  (Started /\ argc_gt_1(given.args)) =>
    /\ screens[0].conn_used
    /\ \A i \in Consoles :
         /\ screens[i].current_context = "pg_stat_database"
         /\ screens[i].pg_stat_activity_min_age = << "0", "0", ":", "0", "0", ":", "0", "0" >>
         /\ \A c \in Contexts :
              /\ screens[i].context_list[c].order_key = ORDER_MIN(c)
              /\ screens[i].context_list[c].order_desc
    /\ first_iter

\* C16 witness: started as  pgcenter -h 10.0.0.1 -p 6432 -U bob -d shop
StartupInitialStateWitness ==
  /\ Started
  /\ given.args.opts = {"h", "p", "U", "d"}
  /\ given.args.pos = << >>
  /\ screens[0].conn_used
  /\ screens[0].host = "10.0.0.1"
  /\ screens[0].dbname = "shop"

\* the connection fields and conn_used of every console
ConnFields(scrs) ==
  [ i \in Consoles |->
      << scrs[i].host, scrs[i].port, scrs[i].dbname, scrs[i].user, scrs[i].password,
         scrs[i].conn_used >> ]

\* C17: create_pgcenterrc_conn on a file with a group or other permission
\* bit returns the read error and writes no connection field and no
\* conn_used; on a file of mode 0600 every line that has a console is
\* consumed into it
RcPermissions ==
  [][ StartRc =>
        /\ (given.rc.exists /\ (given.rc.mode.g # 0 \/ given.rc.mode.o # 0)) =>
             /\ given'.ret = "PGCENTERRC_READ_ERR"
             /\ ConnFields(screens') = ConnFields(screens)
        /\ (given.rc.exists /\ given.rc.openable /\ given.rc.mode.g = 0 /\ given.rc.mode.o = 0) =>
             /\ given'.ret = "PGCENTERRC_READ_OK"
             /\ \A k \in 0 .. given.rc.n - 1 :
                  given'.pos + k < MAX_CONSOLE =>
                    /\ screens'[given'.pos + k].conn_used
                    /\ screens'[given'.pos + k].host = RcLine(k, given.rc.shape)[1] ]_vars

\* C17 witness: a two-line file with a group bit was refused and console 0,
\* which the file would have filled, is configured from the defaults
RcPermissionsWitness ==
  /\ Started
  /\ given.rc.exists /\ given.rc.mode.g # 0 /\ given.rc.n = 2
  /\ given.pos = 0
  /\ given.ret = "PGCENTERRC_READ_ERR"
  /\ screens[0].host = DEFAULT_HOST
  /\ ~screens[1].conn_used

\* C18: the lines of the connection file go to consecutive consoles from the
\* start position, no console index above 7 is written and at most eight
\* consoles are configured
RcBounded ==
  (given.kind = "start" /\ given.ret = "PGCENTERRC_READ_OK") =>
    /\ ~given.oob
    /\ given.pos + given.rc.n <= MAX_CONSOLE
    /\ \A k \in 0 .. given.rc.n - 1 :
         /\ given.pos + k \in Consoles
         /\ screens[given.pos + k].conn_used
         /\ screens[given.pos + k].host = RcLine(k, given.rc.shape)[1]
    /\ Cardinality({ i \in Consoles : screens[i].conn_used }) <= MAX_CONSOLE

\* C19: with two positional arguments and neither -d nor -U, dbname is the
\* first and user the second; with one positional argument and no -d it is
\* the dbname
PositionalDbnameUser ==
  (Started /\ argc_gt_1(given.args) /\ given.args.opts \cap {"d", "U"} = {}) =>
    /\ Len(given.args.pos) = 2 =>
         /\ screens[0].dbname = given.args.pos[1]
         /\ screens[0].user = given.args.pos[2]
    /\ Len(given.args.pos) = 1 => screens[0].dbname = given.args.pos[1]

\* sort_array was run on a view it sorts: not pg_stat_user_functions, and a
\* sort column other than INVALID_ORDER_KEY
TabSorted ==
  /\ tab.step = "sorted"
  /\ tab.ctx # "pg_stat_user_functions"
  /\ tab.key # INVALID_ORDER_KEY

\* the integer sort_array reads in the sort column of a row
KeyOf(row) == atoll(row[tab.key])

\* C21: after sort_array on a view sorted by the client, the integer values
\* of the sort column do not increase from the first row to the last when
\* order_desc is set, and do not decrease when it is not
SortDirection ==
  TabSorted =>
    \A a \in TabRows, b \in TabRows :
      a < b => IF tab.desc THEN KeyOf(tab.r[a]) >= KeyOf(tab.r[b])
                           ELSE KeyOf(tab.r[a]) <= KeyOf(tab.r[b])

\* C21 witness: three rows with three different values in the sort column,
\* given in ascending order, came out in descending order
SortDirectionWitness ==
  /\ TabSorted
  /\ tab.desc
  /\ tab.n_rows = 3
  /\ KeyOf(tab.d[0]) < KeyOf(tab.d[1])
  /\ KeyOf(tab.d[1]) < KeyOf(tab.d[2])
  /\ KeyOf(tab.r[0]) > KeyOf(tab.r[1])
  /\ KeyOf(tab.r[1]) > KeyOf(tab.r[2])

\* the one-to-one maps of the row numbers onto themselves
RowPermutations ==
  { f \in [TabRows -> TabRows] : \A a \in TabRows, b \in TabRows : f[a] = f[b] => a = b }

\* C22: the sorted array is the given array with rows of equal sort value
\* kept in the order they were given in
SortTieBreak ==
  TabSorted =>
    \E f \in RowPermutations :
      /\ \A a \in TabRows : tab.r[a] = tab.d[f[a]]
      /\ \A a \in TabRows, b \in TabRows :
           (a < b /\ KeyOf(tab.r[a]) = KeyOf(tab.r[b])) => f[a] < f[b]

\* the arrays of two rows of a view, each row one cell of IntPool repeated
TwoRowTables(c) ==
  { [i \in 0 .. 1 |-> [j \in 0 .. (N_COLS(c) - 1) |-> IntPool[IF i = 0 THEN a ELSE b]]] :
      a \in 1 .. Len(IntPool), b \in 1 .. Len(IntPool) }

\* C23: the sort column of pg_stat_activity_long is INVALID_ORDER_KEY on every
\* console whatever keys were pressed, and sort_array on the active console
\* returns the array it was given when the view is pg_stat_activity_long or
\* pg_stat_user_functions
LongNeverSorted ==
  /\ \A i \in Consoles :
       screens[i].context_list["pg_stat_activity_long"].order_key = INVALID_ORDER_KEY
  /\ LET scr == screens[console_index]
         c == scr.current_context
     IN  c \in {"pg_stat_activity_long", "pg_stat_user_functions"} =>
           \A t \in TwoRowTables(c) : sort_array(t, 2, N_COLS(c), scr) = t

\* C23 witness: the left arrow was pressed on pg_stat_activity_long
LongNeverSortedWitness ==
  /\ run.ctx = "pg_stat_activity_long"
  /\ run.n = 1
  /\ ~run.inc
  /\ screens[console_index].current_context = "pg_stat_activity_long"
  /\ ActiveKey("pg_stat_activity_long") = -1

\* C24: a tick run with first_iter set makes the result it fetched the
\* baseline and its row count the previous row count (which is 0 before
\* the first tick), clears first_iter and prints nothing
FirstIterSetsRowCount ==
  [][ (Tick /\ first_iter) =>
        /\ last.op = "init" => n_prev_rows = 0
        /\ p_res' = c_res'
        /\ n_prev_rows' = PQntuples(c_res')
        /\ ~first_iter'
        /\ ~last'.rendered ]_vars

\* C25: a tick run with first_iter cleared whose result has no more rows
\* than the previous row count diffs the baseline's first n_rows rows
\* against the result, sorts and prints, and then makes the result the
\* baseline and its row count the previous row count
NormalTickDiffs ==
  [][ (Tick /\ ~first_iter /\ PQntuples(c_res') <= n_prev_rows) =>
        /\ last'.diffed
        /\ last'.sorted
        /\ last'.rendered
        /\ ~last'.short
        /\ p_res' = c_res'
        /\ n_prev_rows' = PQntuples(c_res') ]_vars

\* C26: a tick that goes on to the diff of at least one row has a baseline
\* result with at least n_rows rows and exactly n_cols columns
BaselineCoversDiff ==
  [][ (Tick /\ last'.path \in {"render", "crash"} /\ PQntuples(c_res') > 0) =>
        /\ p_res.kind = "res"
        /\ p_res.rows >= PQntuples(c_res')
        /\ PQnfields(p_res) = PQnfields(c_res') ]_vars

\* C27: after any number of ticks at most one query result, the baseline,
\* is still allocated
ResultsReleased ==
  given.kind = "ticks" => live_results(given.ticks) <= 1

\* C28: the left or right arrow sets first_iter when the active view is
\* pg_stat_user_functions and leaves first_iter as it is on every other view
ArrowRebasesFunctions ==
  [][ \A increment \in BOOLEAN :
        ArrowKey(increment) =>
          IF screens[console_index].current_context = "pg_stat_user_functions"
            THEN first_iter'
            ELSE first_iter' = first_iter ]_vars

\* C28 witness: 'f', a tick that made a pg_stat_user_functions result the
\* baseline and cleared first_iter, then an arrow: first_iter is set again
ArrowRebasesFunctionsWitness ==
  /\ last.op = "key"
  /\ nkeys = 2
  /\ screens[console_index].current_context = "pg_stat_user_functions"
  /\ p_res.kind = "res"
  /\ p_res.ctx = "pg_stat_user_functions"
  /\ ActiveKey("pg_stat_user_functions") # init_screens[0].context_list["pg_stat_user_functions"].order_key
  /\ first_iter

\* C30: 'm' pressed while the active view is not pg_stat_activity_long
\* changes no console, not the active console and not first_iter, and
\* reports "Not allowed here."
MinAgeOnlyOnLong ==
  [][ \A inp \in ReadlineResults, junk \in JunkChoices :
        (KeyMinAgeOf(inp, junk)
           /\ screens[console_index].current_context # "pg_stat_activity_long") =>
          /\ UNCHANGED << screens, console_index, console_no, first_iter >>
          /\ last'.msg = "Not allowed here." ]_vars

\* C30 witness: 'm' was refused on pg_stat_user_tables after a tick had
\* cleared first_iter
MinAgeOnlyOnLongWitness ==
  /\ last.op = "key"
  /\ last.msg = "Not allowed here."
  /\ screens[console_index].current_context = "pg_stat_user_tables"
  /\ screens[console_index].pg_stat_activity_min_age = PG_STAT_ACTIVITY_MIN_AGE_DEFAULT
  /\ ~first_iter

\* the cells of the diff columns one of whose two operands is not the text
\* of an integer
UnparsedCells ==
  { ij \in TabRows \X (ViewDiffCols(tab.ctx) \cap TabCols) :
      ~IsIntText(tab.p[ij[1]][ij[2]]) \/ ~IsIntText(tab.c[ij[1]][ij[2]]) }

\* C29 as stated: a diff cell with an operand that is not an integer is 0
ParseFailureYieldsZero ==
  tab.step \in {"diffed", "sorted"} =>
    \A ij \in UnparsedCells : tab.d[ij[1]][ij[2]] = << "0" >>

\* the integer each cell of CellPool stands for in a subtraction: its
\* leading digits, 0 when it has none
PoolValue(cell) ==
  CASE cell = << "0" >> -> 0
    [] cell = << "1", "2" >> -> 12
    [] cell = << "-", "3" >> -> -3
    [] cell = << "7", "x" >> -> 7
    [] cell = << "a", "b" >> -> 0

\* C29 amended: a diff cell with an operand that is not an integer is still
\* computed: it is the text of current minus previous, where an operand
\* counts as its leading digits and as 0 when it has none
ParseFailureCountsAsZero ==
  tab.step \in {"diffed", "sorted"} =>
    \A ij \in UnparsedCells :
      /\ IsIntText(tab.d[ij[1]][ij[2]])
      /\ tab.d[ij[1]][ij[2]] =
           lli_text(PoolValue(tab.c[ij[1]][ij[2]]) - PoolValue(tab.p[ij[1]][ij[2]]))

\* C29 witness: the current cell "ab" over the previous cell "12" gave "-12"
ParseFailureCountsAsZeroWitness ==
  /\ tab.step = "diffed"
  /\ \E ij \in UnparsedCells :
       /\ tab.c[ij[1]][ij[2]] = << "a", "b" >>
       /\ tab.p[ij[1]][ij[2]] = << "1", "2" >>
       /\ tab.d[ij[1]][ij[2]] = << "-", "1", "2" >>

\* C31: when cmd_readline has returned on ESC, after any keys that stayed
\* inside the buffer, min_age is what it was when 'm' was pressed
EscKeepsMinAge ==
  (given.kind = "edit" /\ given.phase = "idle" /\ given.key = "ESC" /\ ~given.oob) =>
    screens[console_index].pg_stat_activity_min_age = given.old

\* C31 witness: 23:59:59 was typed, its last character erased, then ESC
EscKeepsMinAgeWitness ==
  /\ given.kind = "edit"
  /\ given.phase = "idle"
  /\ given.key = "ESC"
  /\ given.buf = << "2", "3", ":", "5", "9", ":", "5", "9" >>
  /\ given.i = 7
  /\ given.old = PG_STAT_ACTIVITY_MIN_AGE_DEFAULT
  /\ screens[console_index].pg_stat_activity_min_age = PG_STAT_ACTIVITY_MIN_AGE_DEFAULT
  /\ last.msg = "Do nothing. Operation canceled. "

\* C37: while cmd_readline reads, the index i it writes str[i] through never
\* goes below 0 and no cell outside min_age[BUFFERSIZE_S] is written
EditIndexInBuffer ==
  given.kind = "edit" =>
    /\ given.low >= 0
    /\ given.i >= 0
    /\ ~given.oob
    /\ Len(given.buf) <= BUFFERSIZE_S

\* the sums of the counters of the sample just read and of the one before
CurrTotal == host.uptime[1 - host.curr]
PrevTotal == host.uptime[host.curr]

\* C32: the interval the percentages of a tick are computed over is the
\* difference of the totals of the two samples, and 1 when that is below 1
IntervalGuard ==
  (given.kind = "proc" /\ pc = "run") =>
    get_interval(PrevTotal, CurrTotal)
      = (IF CurrTotal - PrevTotal < 1 THEN 1 ELSE CurrTotal - PrevTotal)

\* C33: once the startup has finished, the active index is one of the eight
\* consoles and that console has a connection configured
ActiveConsoleConfigured ==
  (given.kind = "start" /\ pc = "run") =>
    /\ console_index \in Consoles
    /\ screens[console_index].conn_used

\* C34: a view key leaves the sort column and direction of every view of
\* every console, every min_age, every connection and the active console
\* as they are; only the active console's view (and first_iter) changes
ViewKeyKeepsSort ==
  [][ \A k \in ViewKeys :
        KeyViewOf(k) =>
          /\ console_index' = console_index
          /\ \A i \in Consoles :
               /\ screens'[i].context_list = screens[i].context_list
               /\ screens'[i].pg_stat_activity_min_age = screens[i].pg_stat_activity_min_age
               /\ screens'[i].conn_used = screens[i].conn_used
               /\ i # console_index => screens'[i] = screens[i] ]_vars

\* C34 witness: an arrow on pg_stat_database, 'r' and a tick on
\* pg_stat_replication, then 'd': pg_stat_database is back on the column the
\* arrow chose
ViewKeyKeepsSortWitness ==
  /\ last.op = "key"
  /\ nkeys = 3
  /\ screens[console_index].current_context = "pg_stat_database"
  /\ p_res.kind = "res"
  /\ p_res.ctx = "pg_stat_replication"
  /\ ActiveKey("pg_stat_database") # init_screens[0].context_list["pg_stat_database"].order_key
  /\ first_iter

\* C35: a key 1..8 changes no field of any console, and not first_iter, the
\* baseline or its row count
ConsoleSwitchPure ==
  [][ \A ch \in 1 .. 8 :
        KeyConsoleOf(ch) => UNCHANGED << screens, first_iter, p_res, c_res, n_prev_rows >> ]_vars

\* C35 witness: console 1 was put on pg_tables_size and then left for
\* console 2, which shows the default view
ConsoleSwitchPureWitness ==
  /\ last.op = "key"
  /\ last.msg = "Switch to another pgbouncer connection (console %i)"
  /\ console_index = 1
  /\ screens[0].current_context = "pg_tables_size"
  /\ screens[1].current_context = DEFAULT_QUERY_CONTEXT

\* C38: order_desc is true for every view of every console
OrderDescAlways ==
  \A i \in Consoles, c \in Contexts : screens[i].context_list[c].order_desc

\* C38 witness: a table was printed after arrows had moved the sort column
\* of pg_stat_user_indexes
OrderDescAlwaysWitness ==
  /\ last.op = "tick"
  /\ last.rendered
  /\ screens[console_index].current_context = "pg_stat_user_indexes"
  /\ ActiveKey("pg_stat_user_indexes")
       # init_screens[0].context_list["pg_stat_user_indexes"].order_key
  /\ screens[console_index].context_list["pg_stat_user_indexes"].order_desc

\* C36: once no key arrives and every query succeeds with the same number
\* of rows, a table is eventually printed, after at most two skipped ticks
RenderLiveness ==
  /\ (given.kind = "live" /\ given.phase = "settled") ~> (given.phase = "done")
  /\ [](given.kind = "live" => given.skips <= 2)
====
